---- MODULE Spec2Model ----
(***************************************************************************)
(* Model of jmhobbs/cloudflare-headers-file (src/headers.go): the parser   *)
(* of a _headers file (Parse), the matcher (File.Match), Flatten and the   *)
(* helpers hasSplat, hasPlaceholder and replacedHeaders.                   *)
(*                                                                         *)
(* A Go string is a sequence of one-character strings, so that prefixes,   *)
(* suffixes, splits, replacements and the regular expressions of the       *)
(* source are computed character by character.                             *)
(***************************************************************************)
EXTENDS Integers, Sequences, FiniteSets, TLC

VARIABLES
    file,         \* Match: the receiver h, a sequence of Rule
    in,           \* Match: the request URL
    alt,          \* a second request URL, matched side by side with in
    idx,          \* Match: number of rules the range loop has consumed
    headerStack,  \* Match: headerStack for in
    altStack,     \* Match: headerStack for alt
    contributed,  \* history: per consumed rule, the branch taken and what it appended
    out,          \* Match: the returned slice for in
    altOut,       \* Match: the returned slice for alt
    pc,           \* Match: "loop" | "done" | "idle"
    input,        \* Parse: the lines the scanner yields
    pos,          \* Parse: number of lines scanned
    hmap,         \* Parse: hmap
    pattern,      \* Parse: pattern (<<>> is nil, <<u>> points to u)
    headers,      \* Parse: headers
    ret,          \* Parse: the returned (File, error)
    ppc,          \* Parse: "scan" | "done" | "idle"
    fin,          \* Flatten: the argument
    fout,         \* Flatten: the returned slice
    fpc           \* Flatten: "call" | "done" | "idle"

matchVars == <<file, in, alt, idx, headerStack, altStack, contributed, out, altOut, pc>>
parseVars == <<input, pos, hmap, pattern, headers, ret, ppc>>
flattenVars == <<fin, fout, fpc>>
vars == <<file, in, alt, idx, headerStack, altStack, contributed, out, altOut, pc,
          input, pos, hmap, pattern, headers, ret, ppc, fin, fout, fpc>>

(***************************************************************************)
(* Bounds of the model.                                                    *)
(***************************************************************************)
MaxRules == 2
MaxSrcLen == 4
MaxInLen == 2
MaxLines == 3
MaxHeaders == 5

(***************************************************************************)
(* Character classes of the regular expressions.                           *)
(***************************************************************************)
Upper == <<"A","B","C","D","E","F","G","H","I","J","K","L","M",
           "N","O","P","Q","R","S","T","U","V","W","X","Y","Z">>
Lower == <<"a","b","c","d","e","f","g","h","i","j","k","l","m",
           "n","o","p","q","r","s","t","u","v","w","x","y","z">>
Letters == {Upper[i] : i \in 1..26} \cup {Lower[i] : i \in 1..26}
Digits == {"0","1","2","3","4","5","6","7","8","9"}
WordChars == Letters \cup Digits \cup {"_"}
Whitespace == {" ", "\t"}

Min(S) == CHOOSE x \in S : \A y \in S : x <= y
Max(S) == CHOOSE x \in S : \A y \in S : x >= y

(***************************************************************************)
(* package strings                                                         *)
(***************************************************************************)
HasPrefix(s, prefix) ==
    Len(prefix) <= Len(s) /\ SubSeq(s, 1, Len(prefix)) = prefix

HasSuffix(s, suffix) ==
    Len(suffix) <= Len(s) /\ SubSeq(s, Len(s) - Len(suffix) + 1, Len(s)) = suffix

TrimPrefix(s, prefix) ==
    IF HasPrefix(s, prefix) THEN SubSeq(s, Len(prefix) + 1, Len(s)) ELSE s

TrimSuffix(s, suffix) ==
    IF HasSuffix(s, suffix) THEN SubSeq(s, 1, Len(s) - Len(suffix)) ELSE s

\* strings.Index, 1-based; 0 when substr does not occur
Index(s, substr) ==
    LET hits == {i \in 1..(Len(s) - Len(substr) + 1) :
                    SubSeq(s, i, i + Len(substr) - 1) = substr}
    IN IF hits = {} THEN 0 ELSE Min(hits)

Contains(s, substr) == Index(s, substr) # 0

\* strings.SplitN(s, sep, 2) for a non-empty sep
SplitN2(s, sep) ==
    LET i == Index(s, sep)
    IN IF i = 0 THEN <<s>>
       ELSE <<SubSeq(s, 1, i - 1), SubSeq(s, i + Len(sep), Len(s))>>

\* strings.Split(s, sep) for a non-empty sep
RECURSIVE Split(_, _)
Split(s, sep) ==
    LET i == Index(s, sep)
    IN IF i = 0 THEN <<s>>
       ELSE <<SubSeq(s, 1, i - 1)>> \o Split(SubSeq(s, i + Len(sep), Len(s)), sep)

\* strings.Replace(s, old, new, 1)
ReplaceFirst(s, old, new) ==
    LET i == Index(s, old)
    IN IF i = 0 THEN s
       ELSE SubSeq(s, 1, i - 1) \o new \o SubSeq(s, i + Len(old), Len(s))

\* strings.Replace(s, old, new, -1) for a non-empty old
RECURSIVE ReplaceAll(_, _, _)
ReplaceAll(s, old, new) ==
    LET i == Index(s, old)
    IN IF i = 0 THEN s
       ELSE SubSeq(s, 1, i - 1) \o new \o ReplaceAll(SubSeq(s, i + Len(old), Len(s)), old, new)

RECURSIVE Join(_, _)
Join(elems, sep) ==
    IF elems = <<>> THEN <<>>
    ELSE IF Len(elems) = 1 THEN elems[1]
    ELSE elems[1] \o sep \o Join(Tail(elems), sep)

TrimSpace(s) ==
    LET keep == {i \in 1..Len(s) : s[i] \notin Whitespace}
    IN IF keep = {} THEN <<>> ELSE SubSeq(s, Min(keep), Max(keep))

(***************************************************************************)
(* The regular expressions of headers.go.                                  *)
(***************************************************************************)
\* placeholderMatcher.FindString: leftmost, greedy match of :[A-Za-z][[:word:]]*
placeholderMatcherFind(src) ==
    LET starts == {i \in 1..(Len(src) - 1) : src[i] = ":" /\ src[i + 1] \in Letters}
    IN IF starts = {} THEN <<>>
       ELSE LET i == Min(starts)
                stops == {j \in (i + 2)..Len(src) : src[j] \notin WordChars}
                last == IF stops = {} THEN Len(src) ELSE Min(stops) - 1
            IN SubSeq(src, i, last)

\* hostPortMatcher.MatchString: :[0-9]+$
hostPortMatcherMatch(host) ==
    \E i \in 1..(Len(host) - 1) :
        host[i] = ":" /\ \A j \in (i + 1)..Len(host) : host[j] \in Digits

(***************************************************************************)
(* hasPlaceholder and hasSplat.  The result is a record: ok, the token     *)
(* found (hasPlaceholder only) and the replacement.                        *)
(***************************************************************************)
hasPlaceholder(src, inp, disallowed) ==
    LET placeholder == placeholderMatcherFind(src)
        miss == [ok |-> FALSE, placeholder |-> <<>>, replacement |-> <<>>]
    IN IF placeholder = <<>> THEN miss
       ELSE LET chunks == SplitN2(src, placeholder)
            IN IF HasPrefix(inp, chunks[1]) /\ HasSuffix(inp, chunks[2])
               THEN LET replacement == TrimPrefix(TrimSuffix(inp, chunks[2]), chunks[1])
                    IN IF ~Contains(replacement, disallowed)
                       THEN [ok |-> TRUE, placeholder |-> placeholder,
                             replacement |-> replacement]
                       ELSE miss
               ELSE miss

hasSplatNoDelimiterCheck(src, inp, disallowed) ==
    LET miss == [ok |-> FALSE, replacement |-> <<>>]
    IN IF ~Contains(src, <<"*">>) THEN miss
       ELSE LET chunks == Split(src, <<"*">>)
            IN IF HasPrefix(inp, chunks[1]) /\ HasSuffix(inp, chunks[2])
               THEN [ok |-> TRUE,
                     replacement |-> TrimPrefix(TrimSuffix(inp, chunks[2]), chunks[1])]
               ELSE miss

hasSplat(src, inp, disallowed) ==
    LET miss == [ok |-> FALSE, replacement |-> <<>>]
    IN IF ~Contains(src, <<"*">>) THEN miss
       ELSE LET chunks == Split(src, <<"*">>)
            IN IF HasPrefix(inp, chunks[1]) /\ HasSuffix(inp, chunks[2])
               THEN LET replacing == TrimPrefix(TrimSuffix(inp, chunks[2]), chunks[1])
                    IN IF ~Contains(replacing, disallowed)
                       THEN [ok |-> TRUE, replacement |-> replacing]
                       ELSE miss
               ELSE miss

(***************************************************************************)
(* Data.  Header = [Name, Value, Detach]; a url.URL is [Scheme, Host,      *)
(* Path]; Rule = [Pattern, Headers]; File = sequence of Rule.              *)
(***************************************************************************)
Header(name, value) == [Name |-> name, Value |-> value, Detach |-> FALSE]
DetachHeader(name) == [Name |-> name, Value |-> <<>>, Detach |-> TRUE]
URL(scheme, host, path) == [Scheme |-> scheme, Host |-> host, Path |-> path]
Rule(pat, hdrs) == [Pattern |-> pat, Headers |-> hdrs]

\* url.URL.Hostname: Host with the port stripped, that is cut at its first colon
\* (no modelled host has an IPv6 literal in brackets)
HostnameKeepPort(u) == u.Host

Hostname(u) ==
    LET colon == Index(u.Host, <<":">>)
    IN IF colon = 0 THEN u.Host ELSE SubSeq(u.Host, 1, colon - 1)

\* the token Match passes to replacedHeaders after a splat match
SplatTokenStar == <<"*">>

SplatToken == <<":", "s", "p", "l", "a", "t">>

replacedHeadersAll(hdrs, placeholder, replacement) ==
    [i \in 1..Len(hdrs) |->
        [Name |-> hdrs[i].Name,
         Value |-> ReplaceAll(hdrs[i].Value, placeholder, replacement),
         Detach |-> hdrs[i].Detach]]

replacedHeaders(hdrs, placeholder, replacement) ==
    [i \in 1..Len(hdrs) |->
        [Name |-> hdrs[i].Name,
         Value |-> ReplaceFirst(hdrs[i].Value, placeholder, replacement),
         Detach |-> hdrs[i].Detach]]

(***************************************************************************)
(* The body of Match's range loop for one rule: the branch taken (via) and *)
(* the headers it appends to headerStack (add); captured is the            *)
(* replacement that hasSplat or hasPlaceholder returned.                   *)
(***************************************************************************)
MatchFragment(src, inp, disallowed, hdrs) ==
    LET s == hasSplat(src, inp, disallowed)
        p == hasPlaceholder(src, inp, disallowed)
    IN IF s.ok
       THEN [via |-> "splat", captured |-> s.replacement,
             add |-> replacedHeaders(hdrs, SplatToken, s.replacement)]
       ELSE IF p.ok
       THEN [via |-> "placeholder", captured |-> p.replacement,
             add |-> replacedHeaders(hdrs, p.placeholder, p.replacement)]
       ELSE IF src = inp
       THEN [via |-> "exact", captured |-> <<>>, add |-> hdrs]
       ELSE [via |-> "none", captured |-> <<>>, add |-> <<>>]

MatchRuleFallThrough(mapping, u) ==
    LET byHost == MatchFragment(mapping.Pattern.Host, Hostname(u), <<".">>, mapping.Headers)
    IN IF mapping.Pattern.Host # <<>> /\ byHost.via # "none"
       THEN byHost
       ELSE MatchFragment(mapping.Pattern.Path, u.Path, <<"/">>, mapping.Headers)

MatchRule(mapping, u) ==
    IF mapping.Pattern.Host # <<>>
    THEN MatchFragment(mapping.Pattern.Host, Hostname(u), <<".">>, mapping.Headers)
    ELSE MatchFragment(mapping.Pattern.Path, u.Path, <<"/">>, mapping.Headers)

\* headerStack = append(headerStack, more...)
AppendHeadersInFront(stack, more) == more \o stack

AppendHeaders(stack, more) == stack \o more

(***************************************************************************)
(* Flatten.  headersOut is a Go map: a function whose domain is its keys.  *)
(***************************************************************************)
FlattenStepDetachAll(headersOut, header) ==
    IF header.Detach
    THEN <<>>
    ELSE [n \in DOMAIN headersOut \cup {header.Name} |->
            IF n = header.Name
            THEN (IF n \in DOMAIN headersOut THEN headersOut[n] ELSE <<>>)
                    \o <<header.Value>>
            ELSE headersOut[n]]

FlattenStep(headersOut, header) ==
    IF header.Detach
    THEN [n \in DOMAIN headersOut \ {header.Name} |-> headersOut[n]]
    ELSE [n \in DOMAIN headersOut \cup {header.Name} |->
            IF n = header.Name
            THEN (IF n \in DOMAIN headersOut THEN headersOut[n] ELSE <<>>)
                    \o <<header.Value>>
            ELSE headersOut[n]]

RECURSIVE FlattenLoop(_, _)
FlattenLoop(headersOut, hdrs) ==
    IF hdrs = <<>> THEN headersOut
    ELSE FlattenLoop(FlattenStep(headersOut, hdrs[1]), Tail(hdrs))

\* fmt.Sprintf("%s: %s", name, strings.Join(values, ","))
FormatLine(name, values) == name \o <<":", " ">> \o Join(values, <<",">>)

\* Flatten's results: the range over the map visits its keys in any order
Flatten(hdrs) ==
    LET headersOut == FlattenLoop(<<>>, hdrs)
        names == DOMAIN headersOut
        n == Cardinality(names)
        orders == {f \in [1..n -> names] : \A i, j \in 1..n : f[i] = f[j] => i = j}
    IN {[i \in 1..n |-> FormatLine(f[i], headersOut[f[i]])] : f \in orders}

(***************************************************************************)
(* File.Match as a state machine: MatchStep is one iteration of the range  *)
(* loop, MatchReturn the final return Flatten(headerStack).  The same      *)
(* file is matched against in and against alt, side by side.               *)
(***************************************************************************)
MatchStep ==
    /\ pc = "loop"
    /\ idx < Len(file)
    /\ LET mapping == file[idx + 1]
           r == MatchRule(mapping, in)
       IN /\ headerStack' = AppendHeaders(headerStack, r.add)
          /\ altStack' = AppendHeaders(altStack, MatchRule(mapping, alt).add)
          /\ contributed' = Append(contributed, r)
    /\ idx' = idx + 1
    /\ UNCHANGED <<file, in, alt, out, altOut, pc>>
    /\ UNCHANGED <<parseVars, flattenVars>>

MatchReturn ==
    /\ pc = "loop"
    /\ idx = Len(file)
    /\ out' \in Flatten(headerStack)
    /\ altOut' \in Flatten(altStack)
    /\ pc' = "done"
    /\ UNCHANGED <<file, in, alt, idx, headerStack, altStack, contributed>>
    /\ UNCHANGED <<parseVars, flattenVars>>

MatchIdle ==
    /\ file = <<>> /\ in = URL(<<>>, <<>>, <<>>) /\ alt = URL(<<>>, <<>>, <<>>)
    /\ idx = 0 /\ headerStack = <<>> /\ altStack = <<>> /\ contributed = <<>>
    /\ out = <<>> /\ altOut = <<>> /\ pc = "idle"

ParseIdle ==
    /\ input = <<>> /\ pos = 0 /\ hmap = <<>> /\ pattern = <<>> /\ headers = <<>>
    /\ ret = [File |-> <<>>, FileIsNil |-> TRUE, err |-> ""] /\ ppc = "idle"

FlattenIdle ==
    /\ fin = <<>> /\ fout = <<>> /\ fpc = "idle"

MatchStart(f, u, v) ==
    /\ file = f /\ in = u /\ alt = v
    /\ idx = 0 /\ headerStack = <<>> /\ altStack = <<>> /\ contributed = <<>>
    /\ out = <<>> /\ altOut = <<>> /\ pc = "loop"

(***************************************************************************)
(* Rules and requests of the first specification: the shapes of the        *)
(* repository's tests with short names.  X and Y are header names.         *)
(***************************************************************************)
X == <<"X">>
Y == <<"Y">>
NoURLPart == <<>>
SchemeHTTPS == <<"h", "t", "t", "p", "s">>
SchemeHTTP == <<"h", "t", "t", "p">>

RuleCatalog == {
    \* /s                       X: d / Y: n
    Rule(URL(NoURLPart, NoURLPart, <<"/", "s">>),
         <<Header(X, <<"d">>), Header(Y, <<"n">>)>>),
    \* /t/*                     X: * / Y: :splat-:splat
    Rule(URL(NoURLPart, NoURLPart, <<"/", "t", "/", "*">>),
         <<Header(X, <<"*">>),
           Header(Y, <<":", "s", "p", "l", "a", "t", "-", ":", "s", "p", "l", "a", "t">>)>>),
    \* https://m.d/*            Y: i
    Rule(URL(SchemeHTTPS, <<"m", ".", "d">>, <<"/", "*">>),
         <<Header(Y, <<"i">>)>>),
    \* /m/:t                    X: :t&:t / Y: k
    Rule(URL(NoURLPart, NoURLPart, <<"/", "m", "/", ":", "t">>),
         <<Header(X, <<":", "t", "&", ":", "t">>), Header(Y, <<"k">>)>>),
    \* https://:s.e/s           X: <:s:s>
    Rule(URL(SchemeHTTPS, <<":", "s", ".", "e">>, <<"/", "s">>),
         <<Header(X, <<"<", ":", "s", ":", "s", ">">>)>>),
    \* /*                       ! X / Y: :splat
    Rule(URL(NoURLPart, NoURLPart, <<"/", "*">>),
         <<DetachHeader(X), Header(Y, <<":", "s", "p", "l", "a", "t">>)>>),
    \* https://*.e/t/i          X: :splat*
    Rule(URL(SchemeHTTPS, <<"*", ".", "e">>, <<"/", "t", "/", "i">>),
         <<Header(X, <<":", "s", "p", "l", "a", "t", "*">>)>>)
}

RequestSchemes == {SchemeHTTPS, SchemeHTTP}
RequestPorts == {<<>>, <<":", "1">>}
RequestNames == {<<"m", ".", "d">>, <<"c", ".", "e">>, <<"a", ".", "b", ".", "e">>}
RequestPaths == {<<"/", "s">>, <<"/", "t", "/", "i">>, <<"/", "m", "/", "w">>}

Files == UNION {[1..n -> RuleCatalog] : n \in 0..MaxRules}

Init ==
    /\ \E f \in Files, name \in RequestNames, path \in RequestPaths,
          o1 \in {<<SchemeHTTPS, <<>>>>, <<SchemeHTTP, <<":", "1">>>>},
          s2 \in RequestSchemes, p2 \in RequestPorts :
            MatchStart(f, URL(o1[1], name \o o1[2], path), URL(s2, name \o p2, path))
    /\ ParseIdle
    /\ FlattenIdle

Next == MatchStep \/ MatchReturn

Spec == Init /\ [][Next]_vars

(***************************************************************************)
(* Vocabulary of the properties.                                           *)
(***************************************************************************)
\* the headers the consumed rules appended, in the order of the rules
RECURSIVE ContributedUpTo(_)
ContributedUpTo(k) ==
    IF k = 0 THEN <<>> ELSE ContributedUpTo(k - 1) \o contributed[k].add

\* the values of the non-detach entries named n that follow the last detach of n
Survivors(stack, n) ==
    LET detaches == {i \in 1..Len(stack) : stack[i].Detach /\ stack[i].Name = n}
        from == IF detaches = {} THEN 0 ELSE Max(detaches)
        keep == {i \in (from + 1)..Len(stack) : ~stack[i].Detach /\ stack[i].Name = n}
        nth(j) == CHOOSE i \in keep : Cardinality({h \in keep : h < i}) = j - 1
    IN [j \in 1..Cardinality(keep) |-> stack[nth(j)].Value]

\* v1,v2,...,vN
RECURSIVE CommaJoined(_)
CommaJoined(vals) ==
    IF Len(vals) = 0 THEN <<>>
    ELSE IF Len(vals) = 1 THEN vals[1]
    ELSE CommaJoined(SubSeq(vals, 1, Len(vals) - 1)) \o <<",">> \o vals[Len(vals)]

LineOf(n, vals) == n \o <<":", " ">> \o CommaJoined(vals)

LinesNamed(lines, n) == {i \in 1..Len(lines) : HasPrefix(lines[i], n \o <<":", " ">>)}

HeaderNames == {X, Y}

\* a request's hostname: what precedes the first ":" of its host
BeforePort(host) ==
    CHOOSE n \in {SubSeq(host, 1, j) : j \in 0..Len(host)} :
        /\ ~Contains(n, <<":">>)
        /\ (n = host \/ host[Len(n) + 1] = ":")

\* the fragment of rule k that Match tests, the input it is tested against, the delimiter
FragmentOf(k) == IF file[k].Pattern.Host # <<>> THEN file[k].Pattern.Host ELSE file[k].Pattern.Path
InputOf(k) == IF file[k].Pattern.Host # <<>> THEN BeforePort(in.Host) ELSE in.Path
DelimiterOf(k) == IF file[k].Pattern.Host # <<>> THEN <<".">> ELSE <<"/">>

ThroughSplat(k) == hasSplat(FragmentOf(k), InputOf(k), DelimiterOf(k)).ok
ThroughPlaceholder(k) ==
    /\ ~ThroughSplat(k)
    /\ hasPlaceholder(FragmentOf(k), InputOf(k), DelimiterOf(k)).ok

(***************************************************************************)
(* C2: when Match returns, every header name with surviving values from    *)
(* the matching rules has exactly one output line, and that line is the    *)
(* name, ": ", and the values joined by "," in the order the rules (and    *)
(* within a rule its header lines) contributed them; every rule has been   *)
(* consulted.                                                              *)
(***************************************************************************)
C2_AccumulationOrder ==
    pc = "done" =>
        /\ Len(contributed) = Len(file)
        /\ \A n \in HeaderNames :
            LET vals == Survivors(ContributedUpTo(Len(file)), n)
            IN IF vals # <<>>
               THEN /\ Cardinality(LinesNamed(out, n)) = 1
                    /\ \E i \in 1..Len(out) : out[i] = LineOf(n, vals)
               ELSE LinesNamed(out, n) = {}

\* two different rules both contributed a surviving value of one name
C2_Witness ==
    /\ pc = "done"
    /\ \E n \in HeaderNames, k1, k2 \in 1..Len(contributed) :
        /\ k1 < k2
        /\ \E j \in 1..Len(contributed[k1].add) :
              contributed[k1].add[j].Name = n /\ ~contributed[k1].add[j].Detach
        /\ \E j \in 1..Len(contributed[k2].add) :
              contributed[k2].add[j].Name = n /\ ~contributed[k2].add[j].Detach
        /\ Len(Survivors(ContributedUpTo(Len(file)), n)) >= 2
        /\ file[k1] # file[k2]

(***************************************************************************)
(* C3: two requests with the same hostname and the same path get the same  *)
(* set of header lines, whatever their schemes and ports.                  *)
(***************************************************************************)
AsSet(lines) == {lines[i] : i \in 1..Len(lines)}

C3_SchemePortNonInterference ==
    (pc = "done" /\ BeforePort(in.Host) = BeforePort(alt.Host) /\ in.Path = alt.Path) =>
        /\ AsSet(out) = AsSet(altOut)
        /\ Len(out) = Len(altOut)

\* the two requests differ in scheme and in port, and a host rule contributed
C3_Witness ==
    /\ pc = "done"
    /\ in.Scheme # alt.Scheme
    /\ in.Host # alt.Host
    /\ BeforePort(in.Host) = BeforePort(alt.Host)
    /\ \E k \in 1..Len(contributed) :
          file[k].Pattern.Host # <<>> /\ contributed[k].add # <<>>
    /\ \E k \in 1..Len(contributed) :
          file[k].Pattern.Host = <<>> /\ contributed[k].add # <<>>
    /\ out # <<>>

(***************************************************************************)
(* C6, as claimed: after a splat match, each contributed value is the      *)
(* declared value with its first "*" replaced by the captured substring.   *)
(***************************************************************************)
CaptureOf(k) ==
    IF ThroughSplat(k)
    THEN hasSplat(FragmentOf(k), InputOf(k), DelimiterOf(k)).replacement
    ELSE hasPlaceholder(FragmentOf(k), InputOf(k), DelimiterOf(k)).replacement

ContributedWithFirst(k, token) ==
    /\ Len(contributed[k].add) = Len(file[k].Headers)
    /\ \A j \in 1..Len(file[k].Headers) :
        /\ contributed[k].add[j].Name = file[k].Headers[j].Name
        /\ contributed[k].add[j].Detach = file[k].Headers[j].Detach
        /\ contributed[k].add[j].Value =
              ReplaceFirst(file[k].Headers[j].Value, token, CaptureOf(k))

C6_StarReplaced ==
    \A k \in 1..Len(contributed) :
        ThroughSplat(k) => ContributedWithFirst(k, <<"*">>)

(***************************************************************************)
(* C6, amended: after a splat match, each contributed value is the         *)
(* declared value with its first ":splat" replaced by the captured         *)
(* substring; a "*" in a value is left as it is.                           *)
(***************************************************************************)
C6_SplatTokenReplaced ==
    \A k \in 1..Len(contributed) :
        ThroughSplat(k) =>
            ContributedWithFirst(k, <<":", "s", "p", "l", "a", "t">>)

\* a splat rule contributed a value that declares ":splat" twice and one that declares "*"
C6_Witness ==
    \E k \in 1..Len(contributed) :
        /\ ThroughSplat(k)
        /\ \E j \in 1..Len(file[k].Headers) :
              /\ Contains(file[k].Headers[j].Value, <<"*">>)
              /\ contributed[k].add[j].Value = file[k].Headers[j].Value
        /\ \E j \in 1..Len(file[k].Headers) :
              /\ Contains(file[k].Headers[j].Value, <<":", "s", "p", "l", "a", "t">>)
              /\ contributed[k].add[j].Value # file[k].Headers[j].Value
              /\ Contains(contributed[k].add[j].Value, <<":", "s", "p", "l", "a", "t">>)

(***************************************************************************)
(* C7: after a placeholder match, each contributed value is the declared   *)
(* value with only the first occurrence of the placeholder token replaced  *)
(* by the captured substring: what follows it is the declared text, and a  *)
(* value without the token is unchanged.                                   *)
(***************************************************************************)
TokenOf(k) == placeholderMatcherFind(FragmentOf(k))

C7_SingleReplacement ==
    \A k \in 1..Len(contributed) :
        ThroughPlaceholder(k) =>
            /\ Len(contributed[k].add) = Len(file[k].Headers)
            /\ \A j \in 1..Len(file[k].Headers) :
                LET declared == file[k].Headers[j].Value
                    got == contributed[k].add[j].Value
                    at == Index(declared, TokenOf(k))
                IN /\ contributed[k].add[j].Name = file[k].Headers[j].Name
                   /\ IF at = 0
                      THEN got = declared
                      ELSE got = SubSeq(declared, 1, at - 1) \o CaptureOf(k)
                                   \o SubSeq(declared, at + Len(TokenOf(k)), Len(declared))

\* a placeholder rule contributed a value that declares its token twice, and one without it
C7_Witness ==
    \E k \in 1..Len(contributed) :
        /\ ThroughPlaceholder(k)
        /\ \E j \in 1..Len(file[k].Headers) :
              LET declared == file[k].Headers[j].Value
                  at == Index(declared, TokenOf(k))
              IN /\ at # 0
                 /\ Contains(SubSeq(declared, at + 1, Len(declared)), TokenOf(k))
                 /\ Contains(contributed[k].add[j].Value, TokenOf(k))
                 /\ contributed[k].add[j].Value # declared

(***************************************************************************)
(* C8: a rule whose pattern has a host contributes its headers exactly     *)
(* when the request's hostname passes the host test (splat, placeholder,   *)
(* equality); the paths of the rule and of the request play no part.       *)
(***************************************************************************)
HostTestPasses(k) ==
    \/ hasSplat(file[k].Pattern.Host, BeforePort(in.Host), <<".">>).ok
    \/ hasPlaceholder(file[k].Pattern.Host, BeforePort(in.Host), <<".">>).ok
    \/ file[k].Pattern.Host = BeforePort(in.Host)

C8_HostRulesIgnorePath ==
    \A k \in 1..Len(contributed) :
        file[k].Pattern.Host # <<>> =>
            /\ HostTestPasses(k) => Len(contributed[k].add) = Len(file[k].Headers)
            /\ ~HostTestPasses(k) => contributed[k].add = <<>>

\* one host rule failed its host test although its path is the request's path,
\* another passed it although its path pattern does not match the request's path
C8_Witness ==
    /\ \E k \in 1..Len(contributed) :
        /\ file[k].Pattern.Host # <<>>
        /\ ~HostTestPasses(k)
        /\ file[k].Pattern.Path = in.Path
        /\ contributed[k].add = <<>>
    /\ \E k \in 1..Len(contributed) :
        /\ file[k].Pattern.Host # <<>>
        /\ HostTestPasses(k)
        /\ MatchFragment(file[k].Pattern.Path, in.Path, <<"/">>, file[k].Headers).via = "none"
        /\ contributed[k].add # <<>>

(***************************************************************************)
(* Second specification: Match on a file of one rule whose host or path    *)
(* pattern is any string of at most MaxSrcLen characters, against a        *)
(* request whose hostname or path is any string of at most MaxInLen        *)
(* characters.  The characters are the delimiter, "*", ":" and a letter.   *)
(***************************************************************************)
Strings(alphabet, n) == UNION {[1..m -> alphabet] : m \in 0..n}

FragmentHeaders == <<Header(X, <<"<", ":", "s", "p", "l", "a", "t", ">">>), Header(Y, <<":", "a">>)>>

InitFragment ==
    /\ \/ \E src \in Strings({"/", "*", ":", "a"}, MaxSrcLen),
             inp \in Strings({"/", "*", ":", "a"}, MaxInLen) :
               MatchStart(<<Rule(URL(NoURLPart, NoURLPart, src), FragmentHeaders)>>,
                          URL(SchemeHTTPS, <<"c">>, inp), URL(SchemeHTTPS, <<"c">>, inp))
       \/ \E src \in Strings({".", "*", ":", "a"}, MaxSrcLen) \ {<<>>},
             inp \in Strings({".", "*", "a"}, MaxInLen) :
               MatchStart(<<Rule(URL(SchemeHTTPS, src, <<"/">>), FragmentHeaders)>>,
                          URL(SchemeHTTPS, inp, <<"/">>), URL(SchemeHTTPS, inp, <<"/">>))
    /\ ParseIdle
    /\ FlattenIdle

SpecFragment == InitFragment /\ [][Next]_vars

\* the tokens of a fragment: "*" if it has one, and its placeholder if it has one
TokensOf(src) ==
    (IF Contains(src, <<"*">>) THEN {<<"*">>} ELSE {})
        \cup (IF placeholderMatcherFind(src) # <<>> THEN {placeholderMatcherFind(src)} ELSE {})

\* the substrings c with inp = prefix c suffix, the fragment being prefix token suffix
\* around the first occurrence of the token
PossibleCaptures(src, inp, token) ==
    LET at == Index(src, token)
        prefix == SubSeq(src, 1, at - 1)
        suffix == SubSeq(src, at + Len(token), Len(src))
    IN {c \in {SubSeq(inp, i, j) : i \in 1..(Len(inp) + 1), j \in 0..Len(inp)} :
            inp = prefix \o c \o suffix}

AllPossibleCaptures(src, inp) ==
    UNION {PossibleCaptures(src, inp, token) : token \in TokensOf(src)}

(***************************************************************************)
(* C4: a capture that Match uses never contains the delimiter ("/" in a    *)
(* path, "." in a host), and a request that fits the pattern only with a   *)
(* capture containing the delimiter gets none of the rule's headers.       *)
(***************************************************************************)
C4_CapturesNeverSpanDelimiter ==
    \A k \in 1..Len(contributed) :
        /\ contributed[k].via \in {"splat", "placeholder"} =>
              ~Contains(contributed[k].captured, DelimiterOf(k))
        /\ LET possible == AllPossibleCaptures(FragmentOf(k), InputOf(k))
           IN (possible # {} /\ \A c \in possible : Contains(c, DelimiterOf(k))) =>
                 /\ contributed[k].via = "none"
                 /\ contributed[k].add = <<>>
                 /\ pc = "done" => out = <<>>

\* Match has returned nothing for a request that fits the pattern, with a
\* capture across the delimiter
C4_Witness ==
    /\ pc = "done"
    /\ Len(contributed) = 1
    /\ LET possible == AllPossibleCaptures(FragmentOf(1), InputOf(1))
       IN possible # {} /\ \A c \in possible : Contains(c, DelimiterOf(1))
    /\ out = <<>>

(***************************************************************************)
(* C10, as claimed: whenever hasSplat or hasPlaceholder reports a match,   *)
(* the input is prefix, captured substring, suffix.                        *)
(***************************************************************************)
C10_CaptureReconstructsInput ==
    \A k \in 1..Len(contributed) :
        /\ contributed[k].via = "splat" =>
              LET chunks == Split(FragmentOf(k), <<"*">>)
              IN InputOf(k) = chunks[1] \o contributed[k].captured \o chunks[2]
        /\ contributed[k].via = "placeholder" =>
              LET chunks == SplitN2(FragmentOf(k), TokenOf(k))
              IN InputOf(k) = chunks[1] \o contributed[k].captured \o chunks[2]

(***************************************************************************)
(* net/url as Parse uses it.  url.Parse cuts the fragment and the query,   *)
(* reads the scheme, then the authority after "//", then the path.  User   *)
(* info, percent escapes and IPv6 literals are left out: no modelled line  *)
(* has "@", "%" or "[".                                                    *)
(***************************************************************************)
ToLower(s) ==
    [i \in 1..Len(s) |->
        IF \E j \in 1..26 : Upper[j] = s[i]
        THEN Lower[CHOOSE j \in 1..26 : Upper[j] = s[i]]
        ELSE s[i]]

\* strings.Cut(s, sep): what precedes the first sep, or all of s
CutBefore(s, sep) ==
    IF Index(s, sep) = 0 THEN s ELSE SubSeq(s, 1, Index(s, sep) - 1)

LastIndex(s, c) ==
    LET hits == {i \in 1..Len(s) : s[i] = c}
    IN IF hits = {} THEN 0 ELSE Max(hits)

\* url.getScheme: [ok, scheme, rest]
getScheme(rawURL) ==
    LET none == [ok |-> TRUE, scheme |-> <<>>, rest |-> rawURL]
        stops == {i \in 1..Len(rawURL) : rawURL[i] \notin Letters \cup Digits \cup {"+", "-", "."}}
    IN IF rawURL = <<>> THEN none
       ELSE IF rawURL[1] = ":" THEN [ok |-> FALSE, scheme |-> <<>>, rest |-> <<>>]
       ELSE IF rawURL[1] \notin Letters THEN none
       ELSE IF stops = {} THEN none
       ELSE IF rawURL[Min(stops)] = ":"
       THEN [ok |-> TRUE, scheme |-> SubSeq(rawURL, 1, Min(stops) - 1),
             rest |-> SubSeq(rawURL, Min(stops) + 1, Len(rawURL))]
       ELSE none

\* url.validOptionalPort
validOptionalPort(port) ==
    \/ port = <<>>
    \/ port[1] = ":" /\ \A i \in 2..Len(port) : port[i] \in Digits

\* url.parseHost: the host is kept as written, its port must be digits
parseHostOk(host) ==
    /\ LastIndex(host, ":") # 0 =>
          validOptionalPort(SubSeq(host, LastIndex(host, ":"), Len(host)))
    /\ \A i \in 1..Len(host) : host[i] # " "

\* url.Parse: [ok, u]
urlParse(rawURL) ==
    LET fail == [ok |-> FALSE, u |-> URL(<<>>, <<>>, <<>>)]
        noFrag == CutBefore(rawURL, <<"#">>)
        sch == getScheme(noFrag)
        scheme == ToLower(sch.scheme)
        rest == CutBefore(sch.rest, <<"?">>)
    IN IF \E i \in 1..Len(noFrag) : noFrag[i] = "\t" THEN fail
       ELSE IF ~sch.ok THEN fail
       ELSE IF ~HasPrefix(rest, <<"/">>) /\ scheme # <<>>
       THEN [ok |-> TRUE, u |-> URL(scheme, <<>>, <<>>)]
       ELSE IF ~HasPrefix(rest, <<"/">>) /\ Contains(CutBefore(rest, <<"/">>), <<":">>)
       THEN fail
       ELSE IF HasPrefix(rest, <<"/", "/">>)
               /\ (scheme # <<>> \/ ~HasPrefix(rest, <<"/", "/", "/">>))
       THEN LET after == SubSeq(rest, 3, Len(rest))
                authority == CutBefore(after, <<"/">>)
                path == SubSeq(after, Len(authority) + 1, Len(after))
            IN IF parseHostOk(authority)
               THEN [ok |-> TRUE, u |-> URL(scheme, authority, path)]
               ELSE fail
       ELSE [ok |-> TRUE, u |-> URL(scheme, <<>>, rest)]

\* absoluteUrlMatcher.FindStringSubmatch, ^https?://(.*?)/ : [ok, host]
absoluteUrlMatcherFind(trimmed) ==
    LET lead == IF HasPrefix(trimmed, SchemeHTTPS \o <<":", "/", "/">>) THEN 8
                ELSE IF HasPrefix(trimmed, SchemeHTTP \o <<":", "/", "/">>) THEN 7
                ELSE 0
        after == SubSeq(trimmed, lead + 1, Len(trimmed))
    IN IF lead = 0 \/ ~Contains(after, <<"/">>)
       THEN [ok |-> FALSE, host |-> <<>>]
       ELSE [ok |-> TRUE, host |-> CutBefore(after, <<"/">>)]

PlaceholderHost == <<"P", "L", "A", "C", "E", "H", "O", "L", "D", "E", "R">>

(***************************************************************************)
(* Parse, one line at a time.                                              *)
(***************************************************************************)
\* the pattern branch of the loop body, lines 70-90: [err, u]
parsePattern(trimmed) ==
    LET abs == absoluteUrlMatcherFind(trimmed)
        none == URL(<<>>, <<>>, <<>>)
    IN IF abs.ok
       THEN IF hostPortMatcherMatch(abs.host)
            THEN [err |-> "invalid port in rule", u |-> none]
            ELSE LET parsed == urlParse(ReplaceFirst(trimmed, abs.host, PlaceholderHost))
                 IN IF ~parsed.ok THEN [err |-> "url.Parse", u |-> none]
                    ELSE IF parsed.u.Scheme # <<>> /\ parsed.u.Scheme # SchemeHTTPS
                    THEN [err |-> "invalid scheme", u |-> none]
                    ELSE [err |-> "", u |-> [parsed.u EXCEPT !.Host = abs.host]]
       ELSE LET parsed == urlParse(trimmed)
            IN IF ~parsed.ok THEN [err |-> "url.Parse", u |-> none]
               ELSE IF parsed.u.Scheme # <<>> /\ parsed.u.Scheme # SchemeHTTPS
               THEN [err |-> "invalid scheme", u |-> none]
               ELSE [err |-> "", u |-> parsed.u]

\* the header branch, lines 55-64: [err, h]
parseHeader(trimmed) ==
    IF trimmed[1] = "!"
    THEN [err |-> "", h |-> DetachHeader(TrimSpace(SubSeq(trimmed, 2, Len(trimmed))))]
    ELSE LET parts == SplitN2(trimmed, <<":">>)
         IN IF Len(parts) # 2
            THEN [err |-> "invalid header", h |-> DetachHeader(<<>>)]
            ELSE [err |-> "", h |-> Header(parts[1], TrimSpace(parts[2]))]

\* if pattern != nil { hmap = append(hmap, Rule{*pattern, headers}) }
closeRuleUnlessEmpty(rules, pat, hdrs) ==
    IF pat # <<>> /\ hdrs # <<>> THEN Append(rules, Rule(pat[1], hdrs)) ELSE rules

closeRule(rules, pat, hdrs) ==
    IF pat # <<>> THEN Append(rules, Rule(pat[1], hdrs)) ELSE rules

\* trimmed == "" || trimmed[0] == '#'
isBlankOrComment(trimmed) == IF trimmed = <<>> THEN TRUE ELSE trimmed[1] = "#"

ParseFail(e) ==
    /\ ret' = [File |-> <<>>, FileIsNil |-> TRUE, err |-> e]
    /\ ppc' = "done"

\* blank lines and comments
ScanIgnored ==
    /\ ppc = "scan" /\ pos < Len(input)
    /\ isBlankOrComment(TrimSpace(input[pos + 1]))
    /\ pos' = pos + 1
    /\ UNCHANGED <<input, hmap, pattern, headers, ret, ppc>>
    /\ UNCHANGED <<matchVars, flattenVars>>

\* an indented line
ScanHeader ==
    /\ ppc = "scan" /\ pos < Len(input)
    /\ LET line == input[pos + 1]
           trimmed == TrimSpace(line)
       IN /\ ~isBlankOrComment(trimmed)
          /\ line[1] \in {"\t", " "}
          /\ IF pattern = <<>>
             THEN ParseFail("header without pattern") /\ UNCHANGED headers
             ELSE IF parseHeader(trimmed).err # ""
             THEN ParseFail(parseHeader(trimmed).err) /\ UNCHANGED headers
             ELSE /\ headers' = Append(headers, parseHeader(trimmed).h)
                  /\ UNCHANGED <<ret, ppc>>
    /\ pos' = pos + 1
    /\ UNCHANGED <<input, hmap, pattern>>
    /\ UNCHANGED <<matchVars, flattenVars>>

\* any other line: a pattern
ScanPattern ==
    /\ ppc = "scan" /\ pos < Len(input)
    /\ LET line == input[pos + 1]
           trimmed == TrimSpace(line)
       IN /\ ~isBlankOrComment(trimmed)
          /\ line[1] \notin {"\t", " "}
          /\ hmap' = closeRule(hmap, pattern, headers)
          /\ IF parsePattern(trimmed).err # ""
             THEN ParseFail(parsePattern(trimmed).err) /\ UNCHANGED <<pattern, headers>>
             ELSE /\ pattern' = <<parsePattern(trimmed).u>>
                  /\ headers' = <<>>
                  /\ UNCHANGED <<ret, ppc>>
    /\ pos' = pos + 1
    /\ UNCHANGED input
    /\ UNCHANGED <<matchVars, flattenVars>>

\* the scanner is exhausted
ParseReturn ==
    /\ ppc = "scan" /\ pos = Len(input)
    /\ hmap' = closeRule(hmap, pattern, headers)
    /\ ret' = [File |-> hmap', FileIsNil |-> FALSE, err |-> ""]
    /\ ppc' = "done"
    /\ UNCHANGED <<input, pos, pattern, headers>>
    /\ UNCHANGED <<matchVars, flattenVars>>

(***************************************************************************)
(* Third specification: Parse on any input of at most MaxLines lines       *)
(* taken from LineCatalog.                                                 *)
(***************************************************************************)
AbsPrefix == SchemeHTTPS \o <<":", "/", "/">>

LineCatalog == {
    <<>>,                                                   \* blank
    <<"#", " ", "c">>,                                      \* # c
    <<"/", "s">>,                                           \* /s
    <<"/", "t", "/", "*">>,                                 \* /t/*
    AbsPrefix \o <<"m", ".", "d", "/", "*">>,               \* https://m.d/*
    AbsPrefix \o <<":", "s", ".", "e", "/", "*">>,          \* https://:s.e/*
    AbsPrefix \o <<"m", ".", "d", ":", "1", "/", "*">>,     \* https://m.d:1/*
    AbsPrefix \o <<"m", ".", "d", ":", "1">>,               \* https://m.d:1
    SchemeHTTP \o <<":", "/", "/", "m", ".", "d", "/", "*">>,  \* http://m.d/*
    <<" ", " ", "X", ":", " ", "d", " ">>,                  \* "  X: d "
    <<"\t", "!", " ", "X">>,                                \* "\t! X"
    <<" ", "b", "a", "d">>                                  \* " bad"
}

InitParse ==
    /\ MatchIdle
    /\ FlattenIdle
    /\ input \in UNION {[1..n -> LineCatalog] : n \in 0..MaxLines}
    /\ pos = 0 /\ hmap = <<>> /\ pattern = <<>> /\ headers = <<>>
    /\ ret = [File |-> <<>>, FileIsNil |-> TRUE, err |-> ""]
    /\ ppc = "scan"

NextParse == ScanIgnored \/ ScanHeader \/ ScanPattern \/ ParseReturn

SpecParse == InitParse /\ [][NextParse]_vars

\* the three kinds of line
IsIgnoredLine(line) ==
    LET solid == {i \in 1..Len(line) : line[i] \notin Whitespace}
    IN IF solid = {} THEN TRUE ELSE line[Min(solid)] = "#"
IsHeaderLine(line) == ~IsIgnoredLine(line) /\ line[1] \in Whitespace
IsPatternLine(line) == ~IsIgnoredLine(line) /\ line[1] \notin Whitespace

\* the j-th smallest element of a set of numbers
Nth(S, j) == CHOOSE i \in S : Cardinality({h \in S : h < i}) = j - 1

\* the rules the text declares: one per pattern line, with the header lines up to
\* the next pattern line
DeclaredRules(text) ==
    LET pats == {i \in 1..Len(text) : IsPatternLine(text[i])}
        block(j) ==
            LET from == Nth(pats, j)
                to == IF j < Cardinality(pats) THEN Nth(pats, j + 1) ELSE Len(text) + 1
                hs == {i \in (from + 1)..(to - 1) : IsHeaderLine(text[i])}
            IN Rule(parsePattern(TrimSpace(text[from])).u,
                    [h \in 1..Cardinality(hs) |-> parseHeader(TrimSpace(text[Nth(hs, h)])).h])
    IN [j \in 1..Cardinality(pats) |-> block(j)]

(***************************************************************************)
(* C9: when Parse succeeds, the File holds one Rule per pattern line, in   *)
(* the order of the text, each with exactly the header lines (detach lines *)
(* included) between its pattern line and the next, in order; blank and    *)
(* comment lines change nothing, a rule without header lines is present    *)
(* with no headers, and the last rule is closed by the end of the input.   *)
(***************************************************************************)
C9_RuleAssembly ==
    (ppc = "done" /\ ret.err = "") =>
        /\ ~ret.FileIsNil
        /\ ret.File = DeclaredRules(input)

\* a successful parse of a text with a rule without headers followed by a
\* rule whose header is on the last line
C9_Witness ==
    /\ ppc = "done" /\ ret.err = ""
    /\ Len(ret.File) = 2
    /\ ret.File[1].Headers = <<>>
    /\ ret.File[2].Headers # <<>>
    /\ IsHeaderLine(input[Len(input)])

(***************************************************************************)
(* C5, as claimed: a successful Parse returns no Rule whose Host ends in   *)
(* ":" and digits, and a pattern line that is an https URL whose host has  *)
(* a port makes Parse fail.                                                *)
(***************************************************************************)
EndsInPort(host) ==
    \E i \in 1..(Len(host) - 1) :
        host[i] = ":" /\ \A j \in (i + 1)..Len(host) : host[j] \in Digits

\* https://<host>:<digits>, alone or followed by a path
IsHttpsPatternWithPort(line) ==
    /\ IsPatternLine(line)
    /\ HasPrefix(TrimSpace(line), AbsPrefix)
    /\ EndsInPort(CutBefore(SubSeq(TrimSpace(line), Len(AbsPrefix) + 1, Len(TrimSpace(line))),
                            <<"/">>))

C5_NoPortInPattern ==
    ppc = "done" =>
        /\ ret.err = "" => \A k \in 1..Len(ret.File) : ~EndsInPort(ret.File[k].Pattern.Host)
        /\ (\E i \in 1..Len(input) : IsHttpsPatternWithPort(input[i])) =>
              ret.err # "" /\ ret.FileIsNil

(***************************************************************************)
(* Fourth specification: Flatten on any list of at most MaxHeaders         *)
(* headers over two names and two values.                                  *)
(***************************************************************************)
FlattenEntries ==
    {Header(n, v) : n \in HeaderNames, v \in {<<"v">>, <<"w">>}}
        \cup {DetachHeader(n) : n \in HeaderNames}

InitFlatten ==
    /\ MatchIdle
    /\ ParseIdle
    /\ fin \in UNION {[1..n -> FlattenEntries] : n \in 0..MaxHeaders}
    /\ fout = <<>>
    /\ fpc = "call"

FlattenCall ==
    /\ fpc = "call"
    /\ fout' \in Flatten(fin)
    /\ fpc' = "done"
    /\ UNCHANGED fin
    /\ UNCHANGED <<matchVars, parseVars>>

NextFlatten == FlattenCall

SpecFlatten == InitFlatten /\ [][NextFlatten]_vars

(***************************************************************************)
(* C1: Flatten's output has a line for a name exactly when a non-detach    *)
(* entry of that name follows the last detach of that name (or the name    *)
(* has no detach); the line carries exactly the values of those entries,   *)
(* in list order.  Values before a detach of the name never appear, and a  *)
(* detach of one name leaves the other names' values alone.                *)
(***************************************************************************)
C1_FlattenDetach ==
    fpc = "done" =>
        /\ \A n \in HeaderNames :
            LET detaches == {i \in 1..Len(fin) : fin[i].Detach /\ fin[i].Name = n}
                later == {i \in 1..Len(fin) :
                            /\ ~fin[i].Detach /\ fin[i].Name = n
                            /\ \A d \in detaches : d < i}
                vals == [j \in 1..Cardinality(later) |-> fin[Nth(later, j)].Value]
            IN IF later # {}
               THEN /\ Cardinality(LinesNamed(fout, n)) = 1
                    /\ \E i \in 1..Len(fout) : fout[i] = LineOf(n, vals)
               ELSE LinesNamed(fout, n) = {}
        /\ \A i \in 1..Len(fout) : \E n \in HeaderNames : i \in LinesNamed(fout, n)

\* a name was set, detached and set again twice, while the other name, set
\* before that detach, kept its value
C1_Witness ==
    /\ fpc = "done"
    /\ \E a, d, b, c, o \in 1..Len(fin) :
        /\ a < d /\ d < b /\ b < c /\ o < d
        /\ fin[d].Detach /\ fin[d].Name = X
        /\ ~fin[a].Detach /\ fin[a].Name = X /\ fin[a].Value = <<"v">>
        /\ ~fin[b].Detach /\ fin[b].Name = X /\ fin[b].Value = <<"w">>
        /\ ~fin[c].Detach /\ fin[c].Name = X /\ fin[c].Value = <<"w">>
        /\ ~fin[o].Detach /\ fin[o].Name = Y
    /\ Len(fout) = 2

====
